---- MODULE Spec2Model ----
(***************************************************************************)
(* mdworks.general.make_md_workflow: the construction of the MD workflow   *)
(* (staging -> md -> pull -> continue, plus an optional postrun workflow   *)
(* hung below 'pull'), and the execution of the constructed workflow by a  *)
(* FireWorks-style engine: a firework is launched once every parent has    *)
(* completed, its tasks run in list order, and a task that raises fizzles  *)
(* the firework.                                                           *)
(***************************************************************************)
EXTENDS Integers, Sequences, FiniteSets, TLC

VARIABLES pc, args, sim, fs, fwid_ctr, wf, state, idx, retries, md_rc, resubmitted

vars == <<pc, args, sim, fs, fwid_ctr, wf, state, idx, retries, md_rc, resubmitted>>

\* ------------------------------------------------------------------ bounds
\* Longest `stages` list tried.
MaxStages == 2
\* Largest number of fireworks in a postrun workflow tried.
MaxPostrun == 2

\* ------------------------------------------------------------------ values
\* A path is the sequence of its components; an absolute path starts with "/".
\* os.path.join(a, b): an absolute b discards a.
Join(a, b) == IF b # <<>> /\ b[1] = "/" THEN b ELSE a \o b

Range(s) == {s[i] : i \in 1..Len(s)}

None == [kind |-> "None"]

\* Python truth value of an argument: None and the empty dict are false.
Truthy(x) ==
    CASE x.kind = "None" -> FALSE
      [] x.kind = "dict" -> DOMAIN x.items # {}
      [] OTHER -> TRUE

\* ------------------------------------------------------------------ inputs
ArchivePath == <<"/", "archive">>
FileNames == {"md.tpr", "state.cpt"}
FileLists == {<<"md.tpr">>, <<"md.tpr", "state.cpt">>, <<"state.cpt", "md.tpr">>}

StageEntries ==
    { [server |-> "hpc1", user |-> "alice", staging |-> <<"/", "stage1">>],
      [server |-> "hpc2", user |-> "bob", staging |-> <<"/", "stage2">>] }

StageLists == UNION {[1..n -> StageEntries] : n \in 0..MaxStages}

\* The text of a YAML file holding a list of dicts: one line per key, the
\* first line of every list item led by a dash.
StageKeys == <<"server", "user", "staging">>
YamlDump(lst) ==
    [k \in 1..(3 * Len(lst)) |->
        LET i == ((k - 1) \div 3) + 1
            j == ((k - 1) % 3) + 1
        IN [dash |-> (j = 1), key |-> StageKeys[j], val |-> lst[i][StageKeys[j]]]]

\* yaml.load of such a text: a dashed line opens a new dict, any other line
\* adds its key to the dict that is open.
RECURSIVE yaml_load(_)
yaml_load(doc) ==
    IF doc = <<>> THEN <<>>
    ELSE LET n == Len(doc)
             last == doc[n]
             rest == yaml_load(SubSeq(doc, 1, n - 1))
         IN IF last.dash \/ rest = <<>>
            THEN Append(rest, (last.key :> last.val))
            ELSE [rest EXCEPT ![Len(rest)] = (last.key :> last.val) @@ @]

\* A user-made firework (of postrun_wf or post_wf).
UserFw(id, nm) ==
    [fw_id |-> id, name |-> nm, tasks |-> <<[task |-> "PyTask"]>>,
     spec |-> [category |-> "local"]]

PostrunNames == [i \in 1..(MaxPostrun + 1) |->
                    CASE i = 1 -> "postrun1" [] i = 2 -> "postrun2" [] OTHER -> "postrun3"]
PostrunNameSet == {"postrun1", "postrun2", "postrun3"}
PostNameSet == {"final1"}

\* The fireworks the caller made before the call: post_wf's has fw_id -1,
\* postrun_wf's have -2, -3, ...
PostWorkflow ==
    [kind |-> "Workflow",
     fws |-> (-1 :> UserFw(-1, "final1")),
     links |-> (-1 :> {})]

PostrunId(i) == -(i + 1)

\* Every postrun workflow of n fireworks whose links go from one firework to
\* the next: chains, independent fireworks, and mixes of both.
PostrunWorkflows(n) ==
    LET ids == {PostrunId(i) : i \in 1..n}
        pairs == {<<i, j>> \in (1..n) \X (1..n) : j = i + 1}
    IN { [kind |-> "Workflow",
          fws |-> [id \in ids |-> UserFw(id, PostrunNames[-id - 1])],
          links |-> [id \in ids |-> {PostrunId(p[2]) : p \in {q \in es : PostrunId(q[1]) = id}}]]
         : es \in SUBSET pairs }

\* Ids in decreasing order (-2, -3, ...): the order of the 'fws' list.
RECURSIVE IdSeq(_)
IdSeq(S) ==
    IF S = {} THEN <<>>
    ELSE LET m == CHOOSE x \in S : \A y \in S : y <= x
         IN <<m>> \o IdSeq(S \ {m})

\* Workflow.to_dict: the list of fireworks and the links as lists of children.
to_dict(w) ==
    [kind |-> "dict",
     items |-> [fws |-> [k \in 1..Cardinality(DOMAIN w.fws) |-> w.fws[IdSeq(DOMAIN w.fws)[k]]],
                links |-> [id \in DOMAIN w.links |-> IdSeq(w.links[id])]]]

EmptyDict == [kind |-> "dict", items |-> <<>>]

PostrunArgs ==
    LET ws == UNION {PostrunWorkflows(n) : n \in 1..MaxPostrun}
    IN {None, EmptyDict} \cup ws \cup {to_dict(w) : w \in ws}

\* ------------------------------------------------------------------ fireworks library
\* Workflow.from_dict: the fireworks keyed by fw_id, the children as given.
from_dict(d) ==
    [kind |-> "Workflow",
     fws |-> [id \in {d.items.fws[k].fw_id : k \in DOMAIN d.items.fws} |->
                 CHOOSE f \in Range(d.items.fws) : f.fw_id = id],
     links |-> [id \in DOMAIN d.items.links |-> Range(d.items.links[id])]]

\* Workflow.from_wflow: a fresh copy whose fireworks get new negative ids,
\* the k-th firework taking -(ctr + k).
from_wflow(w, ctr) ==
    LET order == IdSeq(DOMAIN w.fws)
        new(id) == -(ctr + (CHOOSE k \in 1..Len(order) : order[k] = id))
        old(n) == CHOOSE id \in DOMAIN w.fws : new(id) = n
    IN [kind |-> "Workflow",
        fws |-> [n \in {new(id) : id \in DOMAIN w.fws} |-> [w.fws[old(n)] EXCEPT !.fw_id = n]],
        links |-> [n \in {new(id) : id \in DOMAIN w.fws} |-> {new(c) : c \in w.links[old(n)]}]]

root_fw_ids(w) == {id \in DOMAIN w.fws : \A p \in DOMAIN w.fws : id \notin w.links[p]}

\* Workflow.append_wf(new_wf, fw_ids): new_wf's fireworks and links are added
\* and every root of new_wf becomes a child of each firework in fw_ids.
append_wf(w, new_wf, fw_ids) ==
    [w EXCEPT
        !.fws = new_wf.fws @@ w.fws,
        !.links = [id \in DOMAIN w.fws \cup DOMAIN new_wf.fws |->
                      IF id \in DOMAIN new_wf.fws THEN new_wf.links[id]
                      ELSE IF id \in fw_ids THEN w.links[id] \cup root_fw_ids(new_wf)
                      ELSE w.links[id]]]

\* ------------------------------------------------------------------ make_md_workflow
\* The files of `files` present in `archive` (computed, and used nowhere).
f_exist(a, filesys) == SelectSeq(a.files, LAMBDA f : f \in filesys.archive)

\* `stages` after the isinstance test: a path is replaced by the loaded file.
stages_loaded(a, filesys) ==
    IF a.stages.kind = "str" THEN yaml_load(filesys.yaml) ELSE a.stages.items

\* Variant: the destination lacks the simulation's uuid.
fts_stage_nouuid(stages, archive, files, uuid) ==
    [i \in 1..Len(stages) |->
        [task |-> "FileTransferTask",
         mode |-> "rtransfer",
         server |-> stages[i].server,
         user |-> stages[i].user,
         files |-> [j \in 1..Len(files) |-> Join(archive, <<files[j]>>)],
         dest |-> stages[i].staging,
         max_retry |-> 5,
         shell_interpret |-> TRUE]]

fts_stage(stages, archive, files, uuid) ==
    [i \in 1..Len(stages) |->
        [task |-> "FileTransferTask",
         mode |-> "rtransfer",
         server |-> stages[i].server,
         user |-> stages[i].user,
         files |-> [j \in 1..Len(files) |-> Join(archive, <<files[j]>>)],
         dest |-> Join(stages[i].staging, <<uuid>>),
         max_retry |-> 5,
         shell_interpret |-> TRUE]]

fw_stage(id, a, s, stages) ==
    [fw_id |-> id,
     name |-> "staging",
     tasks |-> fts_stage(stages, a.archive, a.files, s.uuid),
     spec |-> [launch_dir |-> a.archive, category |-> a.local_category]]

ft_mkdir(s) == [task |-> "MkRunDirTask", uuid |-> s.uuid]

ft_copy(a, s) ==
    [task |-> "FileTransferTask",
     mode |-> "copy",
     files |-> [j \in 1..Len(a.files) |-> Join(Join(<<"${STAGING}">>, <<s.uuid>>), <<a.files[j]>>)],
     dest |-> Join(<<"${SCRATCHDIR}">>, <<s.uuid>>),
     ignore_missing |-> TRUE,
     shell_interpret |-> TRUE]

\* Variant: the script task does not fizzle on a bad return code.
ft_md_nofizzle(s) ==
    [task |-> "ScriptTask",
     script |-> <<"run_md.sh">> \o Join(<<"${SCRATCHDIR}">>, <<s.uuid>>),
     use_shell |-> TRUE,
     fizzle_bad_rc |-> FALSE]

ft_md(s) ==
    [task |-> "ScriptTask",
     script |-> <<"run_md.sh">> \o Join(<<"${SCRATCHDIR}">>, <<s.uuid>>),
     use_shell |-> TRUE,
     fizzle_bad_rc |-> TRUE]

ft_info(s) == [task |-> "BeaconTask", uuid |-> s.uuid]

fw_md(id, a, s) ==
    [fw_id |-> id,
     name |-> "md",
     tasks |-> <<ft_mkdir(s), ft_copy(a, s), ft_md(s), ft_info(s)>>,
     spec |-> [category |-> a.md_category]]

ft_copyback(a) == [task |-> "FilePullTask", dest |-> a.archive]

fw_copyback(id, a) ==
    [fw_id |-> id,
     name |-> "pull",
     tasks |-> <<ft_copyback(a)>>,
     spec |-> [launch_dir |-> a.archive, category |-> a.local_category]]

ft_continue(a, s, stages) ==
    [task |-> "GromacsContinueTask",
     sim |-> s.uuid, archive |-> a.archive, stages |-> stages,
     md_engine |-> a.md_engine, md_category |-> a.md_category,
     local_category |-> a.local_category,
     postrun_wf |-> a.postrun_wf, post_wf |-> a.post_wf, files |-> a.files]

fw_continue(id, a, s, stages) ==
    [fw_id |-> id,
     name |-> "continue",
     tasks |-> <<ft_continue(a, s, stages)>>,
     spec |-> [launch_dir |-> a.archive, category |-> a.local_category]]

\* Variant: the link from 'pull' to 'continue' is left out.
links_dict_open(stage, md, copyback, continue) ==
    (stage :> {md}) @@ (md :> {copyback})

\* links_dict={fw_stage: [fw_md], fw_md: [fw_copyback], fw_copyback: [fw_continue]}
links_dict(stage, md, copyback, continue) ==
    (stage :> {md}) @@ (md :> {copyback}) @@ (copyback :> {continue})

\* Workflow(fireworks, links_dict, name, metadata): a firework that is no key
\* of links_dict has no children.
Workflow(fireworks, links, nm, meta) ==
    [kind |-> "Workflow",
     fws |-> [id \in {f.fw_id : f \in Range(fireworks)} |->
                 CHOOSE f \in Range(fireworks) : f.fw_id = id],
     links |-> [id \in {f.fw_id : f \in Range(fireworks)} |->
                   IF id \in DOMAIN links THEN links[id] ELSE {}],
     name |-> nm,
     metadata |-> meta]

\* Variant: the postrun workflow is appended below 'continue'.
postrun_parents_continue(stage, md, copyback, continue) == {continue}

\* The firework(s) the postrun workflow is appended below.
postrun_parents(stage, md, copyback, continue) == {copyback}

\* Variant: post_wf, when given, is mixed in instead of postrun_wf.
postrun_mixin_post(a) ==
    IF a.post_wf.kind = "Workflow" THEN a.post_wf
    ELSE IF a.postrun_wf.kind = "dict" THEN from_dict(a.postrun_wf) ELSE a.postrun_wf

\* The workflow appended as the postrun workflow.
postrun_mixin(a) ==
    IF a.postrun_wf.kind = "dict" THEN from_dict(a.postrun_wf) ELSE a.postrun_wf

\* sim.categories after line 74.
sim_running(s) == [s EXCEPT !.categories = [@ EXCEPT !.md_status = "running"]]

\* The value make_md_workflow returns for arguments a, Sim s, file system
\* filesys and firework id counter ctr (md_engine = 'gromacs').
wf_built(a, s, filesys, ctr) ==
    LET s1 == sim_running(s)
        stages == stages_loaded(a, filesys)
        i_stage == -(ctr + 1)
        i_md == -(ctr + 2)
        i_copyback == -(ctr + 3)
        i_continue == -(ctr + 4)
        w == Workflow(<<fw_stage(i_stage, a, s1, stages), fw_md(i_md, a, s1),
                        fw_copyback(i_copyback, a), fw_continue(i_continue, a, s1, stages)>>,
                      links_dict(i_stage, i_md, i_copyback, i_continue),
                      <<s1.name, "| md">>,
                      s1.categories)
    IN IF Truthy(a.postrun_wf)
       THEN append_wf(w, from_wflow(postrun_mixin(a), ctr + 4),
                      postrun_parents(i_stage, i_md, i_copyback, i_continue))
       ELSE w

\* ------------------------------------------------------------------ state machine
Returned == [kind |-> "returned"]

\* The arguments of one call.
ArgSets ==
    { [archive |-> ArchivePath, stages |-> st, md_engine |-> e,
       md_category |-> "md", local_category |-> "local",
       postrun_wf |-> pr, post_wf |-> po, files |-> fl]
      : st \in {[kind |-> "list", items |-> l] : l \in StageLists}
               \cup {[kind |-> "str", path |-> "stages.yml"]},
        e \in {"gromacs", "namd"},
        pr \in PostrunArgs,
        po \in {None, PostWorkflow},
        fl \in FileLists }

Init ==
    /\ pc = "start"
    /\ args \in ArgSets
    /\ sim = [uuid |-> "uuid1", name |-> "sim1", categories |-> [md_status |-> "new"]]
    /\ \E present \in SUBSET FileNames :
         \E doc \in (IF args.stages.kind = "str" THEN {YamlDump(l) : l \in StageLists} ELSE {<<>>}) :
            fs = [archive |-> present, yaml |-> doc, staged |-> {}]
    /\ fwid_ctr = MaxPostrun + 1
    /\ wf = None
    /\ state = <<>>
    /\ idx = <<>>
    /\ retries = <<>>
    /\ md_rc = -1
    /\ resubmitted = FALSE

\* One call of make_md_workflow: the Sim is marked running, then either the
\* workflow is returned or ValueError is raised for an unknown md_engine
\* (after the first three fireworks were made).
make_md_workflow ==
    /\ pc = "start"
    /\ sim' = sim_running(sim)
    /\ IF args.md_engine = "gromacs"
       THEN /\ wf' = wf_built(args, sim, fs, fwid_ctr)
            /\ fwid_ctr' = fwid_ctr + Cardinality(DOMAIN wf'.fws)
            /\ pc' = "built"
       ELSE /\ wf' = wf
            /\ fwid_ctr' = fwid_ctr + 3
            /\ pc' = "raised"
    /\ UNCHANGED <<args, fs, state, idx, retries, md_rc, resubmitted>>

\* The returned workflow is added to the launchpad: every firework waits.
\* The call's arguments are gone; what the engine needs is in the tasks.
Submit ==
    /\ pc = "built"
    /\ pc' = "submitted"
    /\ args' = Returned
    /\ state' = [id \in DOMAIN wf.fws |-> "WAITING"]
    /\ idx' = [id \in DOMAIN wf.fws |-> 0]
    /\ retries' = [id \in DOMAIN wf.fws |-> 0]
    /\ UNCHANGED <<sim, fs, fwid_ctr, wf, md_rc, resubmitted>>

Parents(w, id) == {p \in DOMAIN w.fws : id \in w.links[p]}

Tasks(id) == wf.fws[id].tasks

TaskRetry(t) == IF "max_retry" \in DOMAIN t THEN t.max_retry ELSE 0

\* The firework moves on to its k-th task; past the last one it has completed.
Enter(id, k) ==
    /\ idx' = [idx EXCEPT ![id] = k]
    /\ retries' = [retries EXCEPT ![id] = IF k <= Len(Tasks(id)) THEN TaskRetry(Tasks(id)[k]) ELSE 0]
    /\ state' = [state EXCEPT ![id] = IF k <= Len(Tasks(id)) THEN "RUNNING" ELSE "COMPLETED"]

Running(id, kinds) ==
    /\ pc = "submitted"
    /\ state[id] = "RUNNING"
    /\ idx[id] <= Len(Tasks(id))
    /\ Tasks(id)[idx[id]].task \in kinds

\* A firework is launched once all its parents have completed.
Launch(id) ==
    /\ pc = "submitted"
    /\ state[id] = "WAITING"
    /\ \A p \in Parents(wf, id) : state[p] = "COMPLETED"
    /\ Enter(id, 1)
    /\ UNCHANGED <<pc, args, sim, fs, fwid_ctr, wf, md_rc, resubmitted>>

\* Whether a FileTransferTask finds all it has to transfer.
TransferOk(t) ==
    IF t.mode = "rtransfer"
    THEN \A f \in Range(t.files) : f[Len(f)] \in fs.archive /\ SubSeq(f, 1, Len(f) - 1) = ArchivePath
    ELSE t.ignore_missing \/ \A f \in Range(t.files) : f[Len(f)] \in fs.staged

\* FileTransferTask.run_task: an error is retried while max_retry is left,
\* then raised, which fizzles the firework.
RunFileTransfer(id) ==
    /\ Running(id, {"FileTransferTask"})
    /\ LET t == Tasks(id)[idx[id]] IN
         IF TransferOk(t)
         THEN /\ Enter(id, idx[id] + 1)
              /\ fs' = IF t.mode = "rtransfer"
                       THEN [fs EXCEPT !.staged = @ \cup {f[Len(f)] : f \in Range(t.files)}]
                       ELSE fs
         ELSE /\ fs' = fs
              /\ IF retries[id] > 0
                 THEN /\ retries' = [retries EXCEPT ![id] = @ - 1]
                      /\ UNCHANGED <<state, idx>>
                 ELSE /\ state' = [state EXCEPT ![id] = "FIZZLED"]
                      /\ UNCHANGED <<retries, idx>>
    /\ UNCHANGED <<pc, args, sim, fwid_ctr, wf, md_rc, resubmitted>>

\* ScriptTask: the script exits with some return code; with fizzle_bad_rc a
\* non-zero code raises, which fizzles the firework.
RunScript(id) ==
    /\ Running(id, {"ScriptTask"})
    /\ \E rc \in {0, 1} :
         /\ md_rc' = rc
         /\ IF rc # 0 /\ Tasks(id)[idx[id]].fizzle_bad_rc
            THEN /\ state' = [state EXCEPT ![id] = "FIZZLED"]
                 /\ UNCHANGED <<idx, retries>>
            ELSE Enter(id, idx[id] + 1)
    /\ UNCHANGED <<pc, args, sim, fs, fwid_ctr, wf, resubmitted>>

\* MkRunDirTask, BeaconTask, FilePullTask and the callers' PyTask.
RunFireTask(id) ==
    /\ Running(id, {"MkRunDirTask", "BeaconTask", "FilePullTask", "PyTask"})
    /\ Enter(id, idx[id] + 1)
    /\ UNCHANGED <<pc, args, sim, fs, fwid_ctr, wf, md_rc, resubmitted>>

\* GromacsContinueTask: either the MD is not finished and the next leg is
\* submitted, or it is finished and post_wf, if given, is submitted.
RunContinue(id) ==
    /\ Running(id, {"GromacsContinueTask"})
    /\ LET t == Tasks(id)[idx[id]] IN
       \E finished \in BOOLEAN :
         IF finished /\ Truthy(t.post_wf)
         THEN /\ wf' = [wf EXCEPT !.fws = t.post_wf.fws @@ @, !.links = t.post_wf.links @@ @]
              /\ state' = [i \in DOMAIN t.post_wf.fws |-> "WAITING"]
                             @@ [state EXCEPT ![id] = IF idx[id] < Len(Tasks(id)) THEN "RUNNING" ELSE "COMPLETED"]
              /\ idx' = [i \in DOMAIN t.post_wf.fws |-> 0] @@ [idx EXCEPT ![id] = @ + 1]
              /\ retries' = [i \in DOMAIN t.post_wf.fws |-> 0] @@ retries
              /\ resubmitted' = resubmitted
         ELSE /\ resubmitted' = ~finished
              /\ Enter(id, idx[id] + 1)
              /\ wf' = wf
    /\ UNCHANGED <<pc, args, sim, fs, fwid_ctr, md_rc>>

Next ==
    \/ make_md_workflow
    \/ Submit
    \/ \E id \in DOMAIN state : Launch(id)
    \/ \E id \in DOMAIN state : RunFileTransfer(id)
    \/ \E id \in DOMAIN state : RunScript(id)
    \/ \E id \in DOMAIN state : RunFireTask(id)
    \/ \E id \in DOMAIN state : RunContinue(id)

Spec == Init /\ [][Next]_vars

\* ------------------------------------------------------------------ properties
ByName(nm) == {id \in DOMAIN wf.fws : wf.fws[id].name = nm}
The(nm) == CHOOSE id \in ByName(nm) : TRUE
ChainNames == {"staging", "md", "pull", "continue"}
Started(id) == state[id] # "WAITING"
Have == pc \in {"built", "submitted"}

\* The postrun_wf argument of the call, as the continuation task keeps it.
PostrunGiven == Truthy(wf.fws[The("continue")].tasks[1].postrun_wf)
PostrunIds == {id \in DOMAIN wf.fws : wf.fws[id].name \in PostrunNameSet}
PostIds == {id \in DOMAIN wf.fws : wf.fws[id].name \in PostNameSet}

\* The four fireworks, each once, linked staging -> md -> pull -> continue
\* and to nothing else among themselves.
ChainLinked ==
    /\ \A nm \in ChainNames : Cardinality(ByName(nm)) = 1
    /\ wf.links[The("staging")] = {The("md")}
    /\ wf.links[The("md")] = {The("pull")}
    /\ wf.links[The("pull")] \ PostrunIds = {The("continue")}
    /\ wf.links[The("continue")] = {}

\* The fireworks reachable from S along the links.
RECURSIVE Below(_)
Below(S) ==
    LET T == S \cup UNION {wf.links[i] : i \in S}
    IN IF T = S THEN S ELSE Below(T)

\* C1: without postrun_wf the returned workflow is exactly the chain
\* staging -> md -> pull -> continue, and in every execution no firework of
\* the chain has started unless its predecessor has completed.
C1_ChainOfFour ==
    (Have /\ ~PostrunGiven) =>
        /\ pc = "built" =>
              /\ Cardinality(DOMAIN wf.fws) = 4
              /\ {wf.fws[id].name : id \in DOMAIN wf.fws} = ChainNames
              /\ ChainLinked
              /\ wf.links[The("pull")] = {The("continue")}
        /\ pc = "submitted" =>
              /\ Started(The("md")) => state[The("staging")] = "COMPLETED"
              /\ Started(The("pull")) => state[The("md")] = "COMPLETED"
              /\ Started(The("continue")) => state[The("pull")] = "COMPLETED"

\* A run without postrun_wf in which the whole chain has completed.
C1_Witness ==
    /\ pc = "submitted"
    /\ ~PostrunGiven
    /\ \A nm \in ChainNames : state[The(nm)] = "COMPLETED"

\* C2: a given postrun_wf is appended below 'pull' only: its fireworks and
\* inner links are kept, each of its roots has 'pull' as its one parent and
\* starts only after 'pull' completed, and no path joins a postrun firework
\* and 'continue' in either direction; without postrun_wf (None or empty)
\* the workflow is the bare chain.
C2_PostrunBelowPull ==
    /\ pc = "built" =>
          IF Truthy(args.postrun_wf)
          THEN LET orig == postrun_mixin(args)
                   byname(nm) == CHOOSE i \in DOMAIN orig.fws : orig.fws[i].name = nm
                   twin(id) == byname(wf.fws[id].name)
               IN /\ ChainLinked
                  /\ DOMAIN wf.fws = {The(nm) : nm \in ChainNames} \cup PostrunIds
                  /\ {wf.fws[id].name : id \in PostrunIds} = {orig.fws[i].name : i \in DOMAIN orig.fws}
                  /\ Cardinality(PostrunIds) = Cardinality(DOMAIN orig.fws)
                  /\ \A id \in PostrunIds :
                        /\ wf.fws[id].tasks = orig.fws[twin(id)].tasks
                        /\ wf.links[id] \subseteq PostrunIds
                        /\ {twin(c) : c \in wf.links[id]} = orig.links[twin(id)]
                        /\ Parents(wf, id) =
                              IF twin(id) \in root_fw_ids(orig) THEN {The("pull")}
                              ELSE {p \in PostrunIds : twin(id) \in orig.links[twin(p)]}
                        /\ The("continue") \notin Below({id})
                        /\ id \notin Below({The("continue")})
          ELSE /\ Cardinality(DOMAIN wf.fws) = 4
               /\ ChainLinked
               /\ PostrunIds = {}
    /\ pc = "submitted" =>
          \A id \in PostrunIds :
             (Started(id) /\ Parents(wf, id) \cap PostrunIds = {}) => state[The("pull")] = "COMPLETED"

\* A postrun firework runs while 'continue' has not started, and the other
\* way round: 'continue' has completed while a postrun root still waits.
C2_Witness ==
    /\ pc = "submitted"
    /\ \E id \in PostrunIds : state[id] = "COMPLETED" /\ state[The("continue")] = "WAITING"

\* C3: no firework of post_wf is in the workflow make_md_workflow returns;
\* post_wf is held by the continuation task of 'continue' alone, and a
\* post_wf firework is in the launchpad only once that task has run.
C3_PostWfOnlyAfterContinue ==
    /\ pc = "built" =>
          /\ PostIds = {}
          /\ wf.fws[The("continue")].tasks[1].post_wf = args.post_wf
          /\ \A id \in DOMAIN wf.fws : \A k \in DOMAIN wf.fws[id].tasks :
                "post_wf" \in DOMAIN wf.fws[id].tasks[k] => id = The("continue")
    /\ pc = "submitted" =>
          \A id \in PostIds : idx[The("continue")] > 1 /\ state[The("continue")] = "COMPLETED"

\* A post_wf firework has run, after 'continue' found the MD finished.
C3_Witness ==
    /\ pc = "submitted"
    /\ \E id \in PostIds : state[id] = "COMPLETED"

\* C4: files missing from `archive` are tolerated: the staging firework
\* never fizzles, and once it has completed with at least one stage, every
\* file of `files` that exists in `archive` has been staged.
C4_MissingFilesTolerated ==
    pc = "submitted" =>
        /\ state[The("staging")] # "FIZZLED"
        /\ (state[The("staging")] = "COMPLETED" /\ wf.fws[The("staging")].tasks # <<>>) =>
              Range(wf.fws[The("continue")].tasks[1].files) \cap fs.archive \subseteq fs.staged

\* C5: for the list lst that `stages` is, or that the YAML file it names
\* holds, 'staging' has one remote-transfer task per entry of lst, in order,
\* with the entry's server and user, destination <staging>/<uuid>, the files
\* archive/<f> in the order of `files`, and max_retry 5; and the workflow is
\* the one the list form yields.
C5_StagingPerStage ==
    pc = "built" =>
        \A lst \in StageLists :
           (IF args.stages.kind = "list" THEN args.stages.items = lst ELSE fs.yaml = YamlDump(lst)) =>
              LET ts == wf.fws[The("staging")].tasks
              IN /\ Len(ts) = Len(lst)
                 /\ \A i \in 1..Len(lst) :
                       /\ ts[i].task = "FileTransferTask"
                       /\ ts[i].mode = "rtransfer"
                       /\ ts[i].server = lst[i].server
                       /\ ts[i].user = lst[i].user
                       /\ ts[i].dest = lst[i].staging \o <<sim.uuid>>
                       /\ ts[i].files = [j \in 1..Len(args.files) |-> ArchivePath \o <<args.files[j]>>]
                       /\ ts[i].max_retry = 5
                 /\ wf = wf_built([args EXCEPT !.stages = [kind |-> "list", items |-> lst]],
                                  sim, fs, fwid_ctr - Cardinality(DOMAIN wf.fws))

\* `stages` names a YAML file that holds two different entries.
C5_Witness ==
    /\ pc = "built"
    /\ args.stages.kind = "str"
    /\ \E e1, e2 \in StageEntries : e1 # e2 /\ fs.yaml = YamlDump(<<e1, e2>>)
    /\ Len(wf.fws[The("staging")].tasks) = 2

\* C6: the tasks of 'md' are make-run-dir, copy-to-scratch, run_md.sh and
\* beacon, in this order; run_md.sh runs only after the first two, and once
\* it has exited non-zero the beacon has not run, 'md' has fizzled and every
\* firework other than 'staging' and 'md' still waits.
C6_BadReturnCodeStops ==
    /\ Have =>
          LET ts == wf.fws[The("md")].tasks
          IN /\ [k \in 1..Len(ts) |-> ts[k].task]
                   = <<"MkRunDirTask", "FileTransferTask", "ScriptTask", "BeaconTask">>
             /\ ts[2].mode = "copy"
             /\ ts[3].script[1] = "run_md.sh"
    /\ pc = "submitted" =>
          /\ md_rc # -1 => idx[The("md")] >= 3
          /\ md_rc > 0 =>
                /\ idx[The("md")] = 3
                /\ state[The("md")] = "FIZZLED"
                /\ \A id \in DOMAIN wf.fws \ {The("staging"), The("md")} : state[id] = "WAITING"

\* run_md.sh has exited non-zero in a workflow that has postrun fireworks.
C6_Witness ==
    /\ pc = "submitted"
    /\ md_rc > 0
    /\ PostrunIds # {}

====
